---------------------------- MODULE Spec2Model ----------------------------
(***************************************************************************)
(* A model of stellargraph/data/unsupervised_sampler.py: the class        *)
(* UnsupervisedSampler, its constructor, run(batch_size) and              *)
(* _check_parameter_values(batch_size).                                    *)
(*                                                                         *)
(* Two sampler objects (1 and 2) are built with the same constructor      *)
(* arguments.  Calls of run that pass the batch_size check are made on     *)
(* both objects in lock-step; calls that fail the check are made on        *)
(* object 1 alone, so that object 2 shows what object 1 would return had   *)
(* the failed calls never happened.                                        *)
(***************************************************************************)
EXTENDS Integers, Sequences, FiniteSets, TLC

VARIABLES
    runtime,   \* the interpreter's random.choices behaviour on a zero total weight
    phase,     \* "new" | "built" | "failed": was the constructor called, did it raise
    args,      \* the arguments the constructor was called with
    ctorError, \* the exception the constructor raised, or "none"
    sampler,   \* sampler[i]: the fields of object i (self.graph, self.nodes, ...)
    last,      \* last[i]: what the most recent run call on object i did and returned
    lockstep   \* TRUE while both objects have received the same run calls

vars == <<runtime, phase, args, ctorError, sampler, last, lockstep>>

----------------------------------------------------------------------------
(* Bounds of the model *)

MaxNode == 4      \* graphs have 1..MaxNode nodes
MaxLen == 3       \* constructor argument length ranges over 1..MaxLen

RandMod == 8      \* number of states of the abstracted pseudo-random generator

Inst == {1, 2}

\* Python values: [ty |-> the type, v |-> the value]
None == [ty |-> "NoneType", v |-> 0]
PyInt(x) == [ty |-> "int", v |-> x]
PyFloat(x) == [ty |-> "float", v |-> x]
PyList(s) == [ty |-> "list", v |-> s]
NotIterable == [ty |-> "object", v |-> 0]
NotAGraph == [ty |-> "object", n |-> 0, k |-> 0]

\* no object: the constructor was not called, or it raised
NoSampler == [exists |-> FALSE]
NoArgs == [called |-> FALSE]

----------------------------------------------------------------------------
(* Sequence helpers *)

RECURSIVE SumSeq(_)
SumSeq(s) == IF s = <<>> THEN 0 ELSE Head(s) + SumSeq(Tail(s))

RECURSIVE Flatten(_)
Flatten(ss) == IF ss = <<>> THEN <<>> ELSE Head(ss) \o Flatten(Tail(ss))

Count(s, x) == Cardinality({i \in 1..Len(s) : s[i] = x})

Swap(s, i, j) == [s EXCEPT ![i] = s[j], ![j] = s[i]]

----------------------------------------------------------------------------
(* The graph (external collaborator): nodes 1..n, edges {i, i+1} for      *)
(* i in 1..k; nodes k+2..n are isolated.  k = 0 is an edgeless graph.      *)

Graphs == UNION {{[ty |-> "StellarGraph", n |-> n, k |-> k] : k \in 0..(n - 1)}
                 : n \in 1..MaxNode}

IsStellarGraph(G) == G.ty = "StellarGraph"

GraphNodes(G) == [i \in 1..G.n |-> i]

HasEdge(G, u, v) == /\ u \in 1..G.n /\ v \in 1..G.n
                    /\ (v = u + 1 \/ u = v + 1)
                    /\ (IF u < v THEN u ELSE v) <= G.k

NodeDegree(G, v) == Cardinality({u \in 1..G.n : HasEdge(G, u, v)})

RECURSIVE SortedSeq(_)
SortedSeq(S) == IF S = {} THEN <<>>
                ELSE LET m == CHOOSE x \in S : \A y \in S : x <= y
                     IN  <<m>> \o SortedSeq(S \ {m})

Neighbors(G, v) == SortedSeq({u \in 1..G.n : HasEdge(G, u, v)})

----------------------------------------------------------------------------
(* random.Random: a generator with RandMod states.  random() advances the *)
(* state and returns state / RandMod, a fraction in [0, 1).                *)

RandStep(s) == (5 * s + 3) % RandMod

\* the state of Random(seed) for an integer seed
SeedState(seed) == seed % RandMod

\* int(random() * n) on the already advanced state s: an index in 0..n-1
RandBelow(s, n) == (s * n) \div RandMod

\* Random(None) seeds from operating-system entropy: object i starts from
\* its own state
Entropy(i) == (6 * i - 1) % RandMod

Seeds == {None, PyInt(7)}

----------------------------------------------------------------------------
(* UniformRandomWalk.run(nodes, length, n, seed) (stellargraph.data       *)
(* .explorer): n walks from every root, each of exactly `length` nodes,    *)
(* each step to a neighbour chosen uniformly with a generator seeded by    *)
(* `seed`; a node without neighbours is repeated.                          *)

RECURSIVE WalkFrom(_, _, _, _)
WalkFrom(G, cur, left, s) ==
    IF left = 0 THEN [walk |-> <<>>, rng |-> s]
    ELSE IF left = 1 THEN [walk |-> <<cur>>, rng |-> s]
    ELSE LET nb == Neighbors(G, cur)
             s1 == IF nb = <<>> THEN s ELSE RandStep(s)
             nxt == IF nb = <<>> THEN cur ELSE nb[RandBelow(s1, Len(nb)) + 1]
             rest == WalkFrom(G, nxt, left - 1, s1)
         IN  [walk |-> <<cur>> \o rest.walk, rng |-> rest.rng]

RECURSIVE RepeatEach(_, _)
RepeatEach(nodes, n) ==
    IF nodes = <<>> THEN <<>>
    ELSE [i \in 1..n |-> Head(nodes)] \o RepeatEach(Tail(nodes), n)

RECURSIVE WalksFrom(_, _, _, _)
WalksFrom(G, roots, length, s) ==
    IF roots = <<>> THEN <<>>
    ELSE LET w == WalkFrom(G, Head(roots), length, s)
         IN  <<w.walk>> \o WalksFrom(G, Tail(roots), length, w.rng)

UniformRandomWalkRun(G, nodes, length, n, seed) ==
    WalksFrom(G, RepeatEach(nodes, n), length, SeedState(seed))

----------------------------------------------------------------------------
(* _check_parameter_values(batch_size): the exception raised, or "none".  *)
(* A batch_size is [ty |-> its Python type, v |-> its value].              *)

BatchSizes == {None, PyFloat(2)} \cup {PyInt(x) : x \in {-2, 2, 3, 4}}

CheckNone(batch_size) == batch_size.ty = "NoneType"

CheckType(batch_size) == batch_size.ty # "int"

CheckPositive(batch_size) == batch_size.v < 1

CheckEven_skipped(batch_size) == FALSE

CheckEven(batch_size) == batch_size.v % 2 # 0

CheckParameterValues(batch_size) ==
    IF CheckNone(batch_size) THEN "ValueError"
    ELSE IF CheckType(batch_size) THEN "TypeError"
    ELSE IF CheckPositive(batch_size) THEN "ValueError"
    ELSE IF CheckEven(batch_size) THEN "ValueError"
    ELSE "none"

----------------------------------------------------------------------------
(* The sampling distribution: degrees[n] ** 0.75, in thousandths.          *)

Pow075(d) == CASE d = 0 -> 0
               [] d = 1 -> 1000
               [] d = 2 -> 1681
               [] d = 3 -> 2279
               [] d = 4 -> 2828

SamplingDistribution_smoothed(G, all_nodes) ==
    [i \in 1..Len(all_nodes) |-> Pow075(NodeDegree(G, all_nodes[i]) + 1)]

SamplingDistribution(G, all_nodes) ==
    [i \in 1..Len(all_nodes) |-> Pow075(NodeDegree(G, all_nodes[i]))]

\* itertools.accumulate(weights)
RECURSIVE Accumulate(_)
Accumulate(w) ==
    IF w = <<>> THEN <<>>
    ELSE LET rest == Accumulate(SubSeq(w, 1, Len(w) - 1))
         IN  Append(rest, (IF rest = <<>> THEN 0 ELSE rest[Len(rest)]) + w[Len(w)])

\* bisect(cum_weights, r * total, 0, hi) for r = s / RandMod: the 1-based
\* position of the first cumulative weight, among the first hi, that exceeds
\* r * total; position hi + 1 when none does.
Bisect(cum, s, total, hi) ==
    LET above == {i \in 1..hi : cum[i] * RandMod > s * total}
    IN  IF above = {} THEN hi + 1 ELSE CHOOSE i \in above : \A j \in above : i <= j

\* k weighted draws with replacement: [samples, rng]
RECURSIVE Draws(_, _, _, _)
Draws(population, cum, k, s) ==
    IF k = 0 THEN [samples |-> <<>>, rng |-> s]
    ELSE LET s1 == RandStep(s)
             pick == population[Bisect(cum, s1, cum[Len(cum)], Len(cum) - 1)]
             rest == Draws(population, cum, k - 1, s1)
         IN  [samples |-> <<pick>> \o rest.samples, rng |-> rest.rng]

Runtimes == {"raises", "silent"}

\* random.choices(population, weights, k) on the given interpreter:
\* [error, samples, rng].  The result for a zero total weight is not defined
\* by the call: CPython 3.9 and later raise ValueError ("raises"), CPython
\* 3.7 and 3.8 draw with a zero total and return the last element ("silent").
Choices(rt, population, weights, k, s) ==
    LET cum == Accumulate(weights)
    IN  IF rt = "raises" /\ cum[Len(cum)] <= 0
        THEN [error |-> "ValueError", samples |-> <<>>, rng |-> s]
        ELSE LET d == Draws(population, cum, k, s)
             IN  [error |-> "none", samples |-> d.samples, rng |-> d.rng]

\* random.shuffle(x): for i from len(x)-1 down to 1, swap x[i] with x[j],
\* j drawn below i + 1 (0-based); here i is the 1-based position.
RECURSIVE ShuffleFrom(_, _, _)
ShuffleFrom(x, i, s) ==
    IF i <= 1 THEN [list |-> x, rng |-> s]
    ELSE LET s1 == RandStep(s)
             j == RandBelow(s1, i) + 1
         IN  ShuffleFrom(Swap(x, i, j), i - 1, s1)

Shuffle(x, s) == ShuffleFrom(x, Len(x), s)

----------------------------------------------------------------------------
(* UnsupervisedSampler.__init__(G, nodes, length, number_of_walks, seed)  *)

\* is_real_iterable(nodes) (stellargraph.core.utils)
IsRealIterable(nodes) == nodes.ty = "list"

RootLists(G) ==
    IF G \in Graphs THEN {PyList(<<>>), PyList(<<G.n, 1>>)}
    ELSE {PyList(<<1>>)}

CtorArgs ==
    UNION {[G : {G}, nodes : {None, NotIterable} \cup RootLists(G),
            length : 1..MaxLen, number_of_walks : {0, 1, 2}, seed : Seeds]
           : G \in Graphs \cup {NotAGraph}}

GraphOk(a) == IsStellarGraph(a.G)

NodesOk(a) == a.nodes = None \/ IsRealIterable(a.nodes)

LengthOk_offByOne(a) == ~(a.length < 1)

LengthOk(a) == ~(a.length < 2)

NumberOfWalksOk(a) == ~(a.number_of_walks < 1)

\* the parameter whose check raises ValueError, or "none"
CtorCheck(a) ==
    IF ~GraphOk(a) THEN "G"
    ELSE IF ~NodesOk(a) THEN "nodes"
    ELSE IF ~LengthOk(a) THEN "length"
    ELSE IF ~NumberOfWalksOk(a) THEN "number_of_walks"
    ELSE "none"

InitRandom_unseeded(seed, i) == Entropy(i)

\* self.random = random.Random(seed), for object i
InitRandom(seed, i) == IF seed = None THEN Entropy(i) ELSE SeedState(seed.v)

NewSampler(a, i) ==
    [graph |-> a.G,
     nodes |-> IF a.nodes = None THEN GraphNodes(a.G) ELSE a.nodes.v,
     length |-> a.length,
     number_of_walks |-> a.number_of_walks,
     random |-> InitRandom(a.seed, i)]

----------------------------------------------------------------------------
(* UnsupervisedSampler.run(batch_size)                                     *)

\* the n and seed arguments of self.walker.run(...)
WalksPerRoot_configured(self) == self.number_of_walks

WalksPerRoot(self) == 1

WalkerSeed_evolving(self) == self.random

WalkerSeed(self) == 0

WalkerArgs(self) ==
    [nodes |-> self.nodes, length |-> self.length,
     n |-> WalksPerRoot(self), seed |-> WalkerSeed(self)]

\* (target, positive_context) for the contexts walk[1:] of one walk
PairsOfWalk(walk) == [j \in 1..(Len(walk) - 1) |-> <<walk[1], walk[j + 1]>>]

PositivePairs(walks) == Flatten([w \in 1..Len(walks) |-> PairsOfWalk(walks[w])])

NegativePairs_contextAsTarget(positive_pairs, negative_samples) ==
    LET m == IF Len(positive_pairs) < Len(negative_samples)
             THEN Len(positive_pairs) ELSE Len(negative_samples)
    IN  [i \in 1..m |-> <<positive_pairs[i][2], negative_samples[i]>>]

\* zip(positive_pairs, negative_samples): as long as the shorter of the two
NegativePairs(positive_pairs, negative_samples) ==
    LET m == IF Len(positive_pairs) < Len(negative_samples)
             THEN Len(positive_pairs) ELSE Len(negative_samples)
    IN  [i \in 1..m |-> <<positive_pairs[i][1], negative_samples[i]>>]

Labels(positive_pairs, negative_pairs) ==
    [i \in 1..Len(positive_pairs) |-> 1] \o [i \in 1..Len(negative_pairs) |-> 0]

\* list(zip(positive_pairs + negative_pairs, labels))
EdgeIdsLabels(positive_pairs, negative_pairs) ==
    LET ids == positive_pairs \o negative_pairs
        labels == Labels(positive_pairs, negative_pairs)
        m == IF Len(ids) < Len(labels) THEN Len(ids) ELSE Len(labels)
    IN  [i \in 1..m |-> <<ids[i], labels[i]>>]

\* x[i : j] for 0-based i, j
Slice(x, i, j) == SubSeq(x, i + 1, IF j < Len(x) THEN j ELSE Len(x))

\* tuple(zip(*chunk)): (the pairs of the chunk, the labels of the chunk)
Unzip(chunk) ==
    <<[i \in 1..Len(chunk) |-> chunk[i][1]], [i \in 1..Len(chunk) |-> chunk[i][2]]>>

\* the batches for the starts i, i + batch_size, ... below len(x)
RECURSIVE BatchesFrom(_, _, _)
BatchesFrom(x, i, batch_size) ==
    IF i >= Len(x) THEN <<>>
    ELSE <<Unzip(Slice(x, i, i + batch_size))>>
             \o BatchesFrom(x, i + batch_size, batch_size)

RECURSIVE FullBatchesFrom(_, _, _)
FullBatchesFrom(x, i, batch_size) ==
    IF i + batch_size > Len(x) THEN <<>>
    ELSE <<Unzip(Slice(x, i, i + batch_size))>>
             \o FullBatchesFrom(x, i + batch_size, batch_size)

Batches_dropRemainder(x, batch_size) == FullBatchesFrom(x, 0, batch_size)

Batches(x, batch_size) == BatchesFrom(x, 0, batch_size)

NeverCalled ==
    [called |-> FALSE, batch_size |-> None, error |-> "none", raisedAt |-> "none",
     walkerCalls |-> <<>>, shuffled |-> <<>>, batches |-> <<>>]

\* One call self.run(batch_size) on interpreter rt: the object afterwards
\* and the record of the call (what it raised and where, the walker
\* invocations it made, the shuffled list and the batches it returned).
RunCall(rt, self, batch_size) ==
    LET check == CheckParameterValues(batch_size)
        bs == batch_size.v
        all_nodes == GraphNodes(self.graph)
        sampling_distribution == SamplingDistribution(self.graph, all_nodes)
        wargs == WalkerArgs(self)
        walks == UniformRandomWalkRun(self.graph, wargs.nodes, wargs.length,
                                      wargs.n, wargs.seed)
        wcall == [nodes |-> wargs.nodes, length |-> wargs.length, n |-> wargs.n,
                  seed |-> wargs.seed, walks |-> walks]
        positive_pairs == PositivePairs(walks)
        drawn == Choices(rt, all_nodes, sampling_distribution,
                         Len(positive_pairs), self.random)
        negative_pairs == NegativePairs(positive_pairs, drawn.samples)
        sh == Shuffle(EdgeIdsLabels(positive_pairs, negative_pairs), drawn.rng)
    IN  IF check # "none"
        THEN [self |-> self,
              call |-> [NeverCalled EXCEPT !.called = TRUE,
                                           !.batch_size = batch_size,
                                           !.error = check, !.raisedAt = "check"]]
        ELSE IF drawn.error # "none"
        THEN [self |-> [self EXCEPT !.random = drawn.rng],
              call |-> [NeverCalled EXCEPT !.called = TRUE,
                                           !.batch_size = batch_size,
                                           !.error = drawn.error,
                                           !.raisedAt = "choices",
                                           !.walkerCalls = <<wcall>>]]
        ELSE [self |-> [self EXCEPT !.random = sh.rng],
              call |-> [called |-> TRUE, batch_size |-> batch_size,
                        error |-> "none", raisedAt |-> "none",
                        walkerCalls |-> <<wcall>>, shuffled |-> sh.list,
                        batches |-> Batches(sh.list, bs)]]

----------------------------------------------------------------------------
(* The state machine *)

Init ==
    /\ runtime \in Runtimes
    /\ phase = "new"
    /\ args = NoArgs
    /\ ctorError = "none"
    /\ sampler = [i \in Inst |-> NoSampler]
    /\ last = [i \in Inst |-> NeverCalled]
    /\ lockstep = TRUE

\* Both objects are constructed with the same arguments a.
Construct(a) ==
    /\ phase = "new"
    /\ args' = a
    /\ ctorError' = CtorCheck(a)
    /\ IF CtorCheck(a) = "none"
       THEN /\ phase' = "built"
            /\ sampler' = [i \in Inst |-> NewSampler(a, i)]
       ELSE /\ phase' = "failed"
            /\ sampler' = sampler
    /\ UNCHANGED <<runtime, last, lockstep>>

\* run(batch_size) on both objects, for a batch_size the check accepts
Run(batch_size) ==
    /\ phase = "built"
    /\ CheckParameterValues(batch_size) = "none"
    /\ LET r == [i \in Inst |-> RunCall(runtime, sampler[i], batch_size)]
       IN  /\ sampler' = [i \in Inst |-> r[i].self]
           /\ last' = [i \in Inst |-> r[i].call]
    /\ UNCHANGED <<runtime, phase, args, ctorError, lockstep>>

\* run(batch_size) with a batch_size the check rejects, on object 1 alone
RunSolo(batch_size) ==
    /\ phase = "built"
    /\ CheckParameterValues(batch_size) # "none"
    /\ LET r == RunCall(runtime, sampler[1], batch_size)
       IN  /\ sampler' = [sampler EXCEPT ![1] = r.self]
           /\ last' = [last EXCEPT ![1] = r.call]
    /\ lockstep' = FALSE
    /\ UNCHANGED <<runtime, phase, args, ctorError>>

Next ==
    \/ \E a \in CtorArgs : Construct(a)
    \/ \E b \in BatchSizes : Run(b)
    \/ \E b \in BatchSizes : RunSolo(b)

Spec == Init /\ [][Next]_vars

----------------------------------------------------------------------------
(* Vocabulary of the properties *)

Built == phase = "built"

\* an even integer batch_size >= 2
EvenBatchSize(b) == b.ty = "int" /\ b.v >= 2 /\ b.v % 2 = 0

\* missing, not of integer type, less than 1, or odd
BadBatchSize(b) == b = None \/ b.ty # "int" \/ b.v < 1 \/ b.v % 2 # 0

HasEdges(G) == \E v \in 1..G.n : NodeDegree(G, v) >= 1

\* a call that returned batches
Returned(c) == c.called /\ c.error = "none"

\* a call that got past the batch_size check
Accepted(c) == c.called /\ c.raisedAt # "check"

BatchSize(batch) == Len(batch[1])

TotalPairs(c) == SumSeq([j \in 1..Len(c.batches) |-> BatchSize(c.batches[j])])

\* the labelled pairs of the returned batches, in order
Rezip(batch) == [m \in 1..Len(batch[1]) |-> <<batch[1][m], batch[2][m]>>]

Output(c) == Flatten([j \in 1..Len(c.batches) |-> Rezip(c.batches[j])])

\* the walks the walk generator returned to the call
WalksOf(c) == Flatten([w \in 1..Len(c.walkerCalls) |-> c.walkerCalls[w].walks])

\* number of positive pairs: one per walk and position after the root
NumPositive(c) ==
    SumSeq([w \in 1..Len(WalksOf(c)) |-> Len(WalksOf(c)[w]) - 1])

CeilDiv(a, b) == (a + b - 1) \div b

----------------------------------------------------------------------------
(* C1: on a graph with at least one edge, run with an even batch_size >= 2 *)
(* returns batches holding 2 * R * (L - 1) labelled pairs in total, R the  *)
(* number of root nodes and L the walk length.                             *)

C1_TotalPairs ==
    Built =>
        \A i \in Inst :
            (last[i].called /\ EvenBatchSize(last[i].batch_size)
                 /\ HasEdges(sampler[i].graph))
            => /\ Returned(last[i])
               /\ TotalPairs(last[i])
                      = 2 * Len(sampler[i].nodes) * (sampler[i].length - 1)

C1_Witness ==
    /\ Built
    /\ Returned(last[1])
    /\ HasEdges(sampler[1].graph)
    /\ sampler[1].number_of_walks = 2
    /\ Len(sampler[1].nodes) = 4
    /\ sampler[1].length = 3
    /\ TotalPairs(last[1]) = 16

----------------------------------------------------------------------------
(* C2: a successful run with P positive pairs returns ceil(2P/batch_size)  *)
(* batches, all of batch_size pairs except the last, which has between 1    *)
(* and batch_size; pairs and labels of a batch have the same length; the   *)
(* batches concatenated are the shuffled list of the 2P labelled pairs.    *)

C2_Batching ==
    Built =>
        \A i \in Inst :
            Returned(last[i]) =>
                LET c == last[i]
                    bs == c.batch_size.v
                    P == NumPositive(c)
                    nb == Len(c.batches)
                IN  /\ nb = CeilDiv(2 * P, bs)
                    /\ \A j \in 1..nb : Len(c.batches[j][1]) = Len(c.batches[j][2])
                    /\ \A j \in 1..(nb - 1) : BatchSize(c.batches[j]) = bs
                    /\ nb >= 1 => /\ BatchSize(c.batches[nb]) >= 1
                                  /\ BatchSize(c.batches[nb]) <= bs
                    /\ Len(c.shuffled) = 2 * P
                    /\ Output(c) = c.shuffled

C2_Witness ==
    /\ Built
    /\ Returned(last[1])
    /\ Len(last[1].batches) >= 2
    /\ BatchSize(last[1].batches[Len(last[1].batches)]) < last[1].batch_size.v

----------------------------------------------------------------------------
(* C3: the labelled pairs of a successful run are, for every walk w and    *)
(* position j after its root, one label-1 pair (w[0], w[j]) and one        *)
(* label-0 pair (w[0], c) with c a node of the graph; for every target the *)
(* label-0 pairs are as many as the label-1 pairs.                         *)

C3_Pairs ==
    Built =>
        \A i \in Inst :
            Returned(last[i]) =>
                LET c == last[i]
                    out == Output(c)
                    walks == WalksOf(c)
                    V == 1..sampler[i].graph.n
                    Places(t, x) ==
                        {wj \in (1..Len(walks)) \X (1..MaxLen) :
                            /\ wj[2] + 1 <= Len(walks[wj[1]])
                            /\ walks[wj[1]][1] = t
                            /\ walks[wj[1]][wj[2] + 1] = x}
                    Roots == {walks[w][1] : w \in 1..Len(walks)}
                    Neg(t) == {m \in 1..Len(out) : out[m][2] = 0 /\ out[m][1][1] = t}
                    Pos(t) == {m \in 1..Len(out) : out[m][2] = 1 /\ out[m][1][1] = t}
                IN  /\ \A m \in 1..Len(out) : out[m][2] \in {0, 1}
                    /\ \A m \in 1..Len(out) :
                           out[m][2] = 0 => /\ out[m][1][1] \in Roots
                                            /\ out[m][1][2] \in V
                    /\ \A t \in V : \A x \in V :
                           Count(out, <<(<<t, x>>), 1>>) = Cardinality(Places(t, x))
                    /\ \A m \in 1..Len(out) : out[m][2] = 1 => out[m][1][1] \in V
                    /\ \A t \in V : Cardinality(Neg(t)) = Cardinality(Pos(t))

C3_Witness ==
    /\ Built
    /\ Returned(last[1])
    /\ \E m \in 1..Len(last[1].shuffled) : \E l \in 1..Len(last[1].shuffled) :
           LET a == last[1].shuffled[m]
               b == last[1].shuffled[l]
           IN  /\ a[2] = 1 /\ b[2] = 0
               /\ a[1][1] = b[1][1]
               /\ a[1][2] # b[1][2]
               /\ a[1][2] # a[1][1]
    /\ \E w \in 1..Len(WalksOf(last[1])) : Len(WalksOf(last[1])[w]) = 3

----------------------------------------------------------------------------
(* C4: two samplers built with the same integer seed, graph and           *)
(* parameters return identical lists of batches on every run call they     *)
(* make in lock-step.                                                      *)

\* what the first run call on object i returns
FirstCall(i, b) == RunCall(runtime, NewSampler(args, i), b).call

----------------------------------------------------------------------------
(* C5: run with a batch_size that is missing, not an integer, less than 1  *)
(* or odd raises before the walk generator is invoked and before any draw  *)
(* from the random source; it returns no batches and leaves the sampler    *)
(* unchanged, so a following valid run returns what it would have returned *)
(* had the failed call never happened.                                     *)

FailedFast(c) ==
    /\ c.called /\ c.error # "none" /\ c.raisedAt = "check"
    /\ c.walkerCalls = <<>> /\ c.shuffled = <<>> /\ c.batches = <<>>

C5_FailFast ==
    /\ [][\A b \in BatchSizes :
            (BadBatchSize(b) /\ (Run(b) \/ RunSolo(b)))
            => (sampler' = sampler /\ FailedFast(last'[1]))]_vars
    /\ []((Built /\ args.seed # None /\ ~lockstep /\ Accepted(last[1]))
            => (last[1].error = last[2].error /\ last[1].batches = last[2].batches))

C5_Witness ==
    /\ Built /\ args.seed # None /\ ~lockstep
    /\ Returned(last[1])
    /\ Len(last[1].batches) >= 2

----------------------------------------------------------------------------
(* C6: the constructor raises exactly when the graph is not a recognised   *)
(* graph, the root nodes are given and not iterable, length < 2 or         *)
(* number_of_walks < 1; after a failed construction there is no sampler to *)
(* run, after a successful one the sampler holds the configured values.    *)

C6_Construction ==
    phase # "new" =>
        LET bad == \/ args.G.ty # "StellarGraph"
                   \/ (args.nodes # None /\ args.nodes.ty # "list")
                   \/ args.length < 2
                   \/ args.number_of_walks < 1
        IN  /\ (phase = "failed") <=> bad
            /\ phase = "failed" =>
                   /\ ctorError # "none"
                   /\ \A i \in Inst : sampler[i] = NoSampler /\ ~last[i].called
            /\ phase = "built" =>
                   /\ ctorError = "none"
                   /\ \A i \in Inst :
                          /\ sampler[i] # NoSampler
                          /\ sampler[i].graph = args.G
                          /\ sampler[i].length = args.length
                          /\ sampler[i].number_of_walks = args.number_of_walks
                          /\ sampler[i].nodes =
                                 (IF args.nodes = None THEN GraphNodes(args.G)
                                  ELSE args.nodes.v)

C6_Witness ==
    /\ phase = "failed"
    /\ args.G.ty = "StellarGraph"
    /\ args.nodes = None
    /\ args.length = 1
    /\ args.number_of_walks = 1

----------------------------------------------------------------------------
(* C7: every batch returned by run holds as many label-1 as label-0        *)
(* samples.  Stated for the graphs with at least one edge, where the       *)
(* negative draws are well defined.                                        *)

C7_BalancedBatches ==
    Built =>
        \A i \in Inst :
            (Returned(last[i]) /\ HasEdges(sampler[i].graph)) =>
                \A j \in 1..Len(last[i].batches) :
                    Count(last[i].batches[j][2], 1) = Count(last[i].batches[j][2], 0)

----------------------------------------------------------------------------
(* C8: when every node's sampling weight is zero, run raises at the        *)
(* negative-draw step and returns no batches, so no label-0 pair drawn     *)
(* from the all-zero distribution is returned.  Stated for the samplers    *)
(* with at least one root node, which have negative pairs to draw.         *)

AllWeightsZero(G) ==
    \A v \in 1..G.n : SamplingDistribution(G, GraphNodes(G))[v] = 0

C8_DegenerateRaises ==
    Built =>
        \A i \in Inst :
            (Accepted(last[i]) /\ AllWeightsZero(sampler[i].graph)
                 /\ Len(sampler[i].nodes) >= 1)
            => /\ last[i].error # "none"
               /\ last[i].raisedAt = "choices"
               /\ last[i].batches = <<>>

----------------------------------------------------------------------------
(* C9: on every run call the walk generator is invoked exactly once, for   *)
(* the configured root nodes and length, with one walk per root and with   *)
(* seed 0.                                                                 *)

WalkerOnce(i) ==
    /\ Len(last[i].walkerCalls) = 1
    /\ LET wc == last[i].walkerCalls[1]
       IN  /\ wc.nodes = sampler[i].nodes
           /\ wc.length = sampler[i].length
           /\ wc.n = 1
           /\ wc.seed = 0
           /\ Len(wc.walks) = Len(sampler[i].nodes)

----------------------------------------------------------------------------
(* C10: when some node has positive degree, a node of degree 0 has weight  *)
(* 0 and is never the context of a label-0 pair; every such context has    *)
(* degree >= 1.                                                            *)

C10_NoIsolatedNegative ==
    Built =>
        \A i \in Inst :
            LET G == sampler[i].graph
                out == Output(last[i])
            IN  HasEdges(G) =>
                    /\ \A v \in 1..G.n :
                           NodeDegree(G, v) = 0
                               => SamplingDistribution(G, GraphNodes(G))[v] = 0
                    /\ Returned(last[i]) =>
                           \A m \in 1..Len(out) :
                               out[m][2] = 0 => NodeDegree(G, out[m][1][2]) >= 1

C10_Witness ==
    /\ Built
    /\ Returned(last[1])
    /\ HasEdges(sampler[1].graph)
    /\ \E v \in 1..sampler[1].graph.n :
           /\ NodeDegree(sampler[1].graph, v) = 0
           /\ v \in {sampler[1].nodes[r] : r \in 1..Len(sampler[1].nodes)}
    /\ \E m \in 1..Len(last[1].shuffled) : last[1].shuffled[m][2] = 0
=============================================================================
